---- MODULE Spec2Model ----
(***************************************************************************)
(* movies_markov.py: a first-order Markov chain over the words of movie    *)
(* titles (calculate_chain), a weighted sampler (weighted_choice), a       *)
(* random walk over the chain (markov_randwalk) and the deduplicating      *)
(* generator titles() that __main__ pulls from.                            *)
(*                                                                         *)
(* A Python str is a sequence of one-character strings.  The words of the  *)
(* input are strings over Chars without Space; the two sentinels           *)
(* '_start_' and '_end_' are spelled out, so no word over Chars equals     *)
(* them.  A dict that the code only looks keys up in (mark) is a function; *)
(* an edge table, whose items() order weighted_choice scans, is the        *)
(* sequence of its (key, weight) pairs in insertion order.                 *)
(***************************************************************************)
EXTENDS Integers, Sequences, FiniteSets, TLC

\* Bounds of the model.
MaxLen    == 4   \* characters of an input title or of a seed
MaxTitles == 2   \* entries of the input collection
MaxWalk   == 2   \* tokens one walk may hold before the model stops extending it
MaxPulls  == 2   \* titles the consumer takes from the stream (n in __main__)
MaxPairs  == 3   \* pairs handed to weighted_choice on its own
MaxWeight == 2   \* largest weight handed to weighted_choice on its own

Space   == " "
Letters == {"a"}
Chars   == Letters \cup {Space}

START == <<"_", "s", "t", "a", "r", "t", "_">>
END   == <<"_", "e", "n", "d", "_">>
\* Python's None: a value that is no string over Chars.
None  == <<"None">>
\* What weighted_choice gives when it runs into `assert False`.
AssertFail == <<"AssertionError">>

Strings(n) == UNION {[1..k -> Chars] : k \in 0..n}

\* ---------------------------------------------------------------- str

\* s.split(' '): cut at every single space, empty pieces kept.
RECURSIVE Split(_)
Split(s) ==
    IF \A i \in 1..Len(s) : s[i] # Space
    THEN <<s>>
    ELSE LET i == CHOOSE k \in 1..Len(s) :
                      s[k] = Space /\ \A m \in 1..(k - 1) : s[m] # Space
         IN  <<SubSeq(s, 1, i - 1)>> \o Split(SubSeq(s, i + 1, Len(s)))

\* Join with the separator left out.
RECURSIVE JoinNoSeparator(_)
JoinNoSeparator(title) ==
    IF Len(title) = 0 THEN <<>> ELSE title[1] \o JoinNoSeparator(Tail(title))

\* ' '.join(title)
RECURSIVE Join(_)
Join(title) ==
    IF Len(title) = 0 THEN <<>>
    ELSE IF Len(title) = 1 THEN title[1]
    ELSE title[1] \o <<Space>> \o Join(Tail(title))

\* ---------------------------------------------------------- edge table

\* The keys of an edge table.
Keys(tbl) == {tbl[k][1] : k \in 1..Len(tbl)}

\* `key in tbl`
HasKey(tbl, key) == key \in Keys(tbl)

\* tbl[key]
Get(tbl, key) == tbl[CHOOSE k \in 1..Len(tbl) : tbl[k][1] = key][2]

\* tbl[key] = 1 for a key that is not in tbl yet: a dict appends new keys.
SetNew(tbl, key) == Append(tbl, <<key, 1>>)

\* Incr that leaves the weight as it is.
IncrLost(tbl, key) == tbl

\* tbl[key] += 1
Incr(tbl, key) ==
    [k \in 1..Len(tbl) |-> IF tbl[k][1] = key THEN <<key, tbl[k][2] + 1>> ELSE tbl[k]]

\* sum(weight for choice, weight in choices)
RECURSIVE Total(_)
Total(choices) ==
    IF Len(choices) = 0 THEN 0 ELSE choices[1][2] + Total(Tail(choices))

\* ------------------------------------------------------ calculate_chain

\* mark = {}; mark['_start_'] = {}
EmptyChain == START :> <<>>

\* AddWord without `mark[word] = {}`.
AddWordNoKey(m, prev, word) ==
    IF ~HasKey(m[prev], word)
    THEN [m EXCEPT ![prev] = SetNew(@, word)]
    ELSE [m EXCEPT ![prev] = Incr(@, word)]

\* The body of `for word in words` for one non-empty word.
AddWord(m, prev, word) ==
    IF ~HasKey(m[prev], word)
    THEN LET m1 == [m EXCEPT ![prev] = SetNew(@, word)]
         IN  IF word \notin DOMAIN m1 THEN m1 @@ (word :> <<>>) ELSE m1
    ELSE [m EXCEPT ![prev] = Incr(@, word)]

\* AddEnd that adds nothing.
AddEndSkipped(m, prev) == m

\* The '_end_' edge added after the word loop.
AddEnd(m, prev) ==
    IF ~HasKey(m[prev], END)
    THEN [m EXCEPT ![prev] = SetNew(@, END)]
    ELSE [m EXCEPT ![prev] = Incr(@, END)]

\* One title: words = title.split(' '), the word loop from `previous` on (it
\* breaks at the first empty word), then the '_end_' edge.
RECURSIVE ReadWords(_, _, _)
ReadWords(m, prev, ws) ==
    IF Len(ws) = 0 \/ Head(ws) = <<>>
    THEN AddEnd(m, prev)
    ELSE ReadWords(AddWord(m, prev, Head(ws)), Head(ws), Tail(ws))

\* The title loop: it breaks at the first None.
RECURSIVE ChainFrom(_, _)
ChainFrom(m, ts) ==
    IF Len(ts) = 0 \/ Head(ts) = None
    THEN m
    ELSE ChainFrom(ReadWords(m, START, Split(Head(ts))), Tail(ts))

\* calculate_chain(titles) as a function of its input.
CalculateChain(ts) == ChainFrom(EmptyChain, ts)

\* ------------------------------------------------------ weighted_choice

\* The scan of weighted_choice from pair k on.  randval is a real number in
\* [0, total]; the weights are integers, so every outcome of the comparison
\* upto + weight >= randval is met by a multiple of one half: r2 is twice
\* randval.
RECURSIVE Scan(_, _, _, _)
RECURSIVE ScanStrict(_, _, _, _)

\* The scan with `>` for `>=`.
ScanStrict(chs, k, upto, r2) ==
    IF k > Len(chs) THEN AssertFail
    ELSE IF 2 * (upto + chs[k][2]) > r2 THEN chs[k][1]
    ELSE ScanStrict(chs, k + 1, upto + chs[k][2], r2)

Scan(chs, k, upto, r2) ==
    IF k > Len(chs) THEN AssertFail
    ELSE IF 2 * (upto + chs[k][2]) >= r2 THEN chs[k][1]
    ELSE Scan(chs, k + 1, upto + chs[k][2], r2)

\* random.uniform(0, total): both ends can be drawn.
Draws(chs) == 0..(2 * Total(chs))

WeightedChoice(chs, r2) == Scan(chs, 1, 0, r2)

\* ---------------------------------------------------------------- state

VARIABLES
    pc,        \* where the program is
    titles,    \* calculate_chain: the input collection in iteration order
    i,         \* calculate_chain: index of the entry the title loop is at
    words,     \* calculate_chain: the words of the title still to read
    previous,  \* calculate_chain and markov_randwalk: key of the table `previous`
    mark,      \* the chain
    seed,      \* titles(): the seed
    uniq,      \* titles(): the strings yielded so far
    title,     \* markov_randwalk: the tokens of the walk
    result,    \* markov_randwalk: the string returned by the last walk
    printed,   \* __main__: the titles taken from the stream, in order
    choices,   \* weighted_choice on its own: the pairs
    randval,   \* weighted_choice on its own: twice the draw
    choice     \* weighted_choice on its own: what it returned

vars == <<pc, titles, i, words, previous, mark, seed, uniq, title, result,
          printed, choices, randval, choice>>

buildVars  == <<titles, i, words>>
streamVars == <<seed, uniq, title, result, printed>>
choiceVars == <<choices, randval, choice>>

\* An entry of the input: a cleaned title, or None for a line cleanline
\* could not parse.
Entries == Strings(MaxLen) \cup {None}

Inputs == UNION {[1..n -> Entries] : n \in 0..MaxTitles}

\* sys.argv[-1], or '_start_' when no argument is given.
Seeds == Strings(MaxLen) \cup {START}

Init ==
    /\ pc = "calculate_chain"
    /\ titles \in Inputs
    /\ i = 0
    /\ words = <<>>
    /\ previous = START
    /\ mark = <<>>
    /\ seed = START
    /\ uniq = {}
    /\ title = <<>>
    /\ result = <<>>
    /\ printed = <<>>
    /\ choices = <<>>
    /\ randval = 0
    /\ choice = <<>>

\* ------------------------------------------------------ calculate_chain

\* mark = {}; mark['_start_'] = {}
Enter ==
    /\ pc = "calculate_chain"
    /\ mark' = EmptyChain
    /\ i' = 1
    /\ pc' = "for_title"
    /\ UNCHANGED <<titles, words, previous, streamVars, choiceVars>>

\* for title in titles: the input is used up.
TitlesDone ==
    /\ pc = "for_title"
    /\ i > Len(titles)
    /\ pc' = "return"
    /\ UNCHANGED <<buildVars, previous, mark, streamVars, choiceVars>>

\* if title is None: break
TitleNone ==
    /\ pc = "for_title"
    /\ i <= Len(titles)
    /\ titles[i] = None
    /\ pc' = "return"
    /\ UNCHANGED <<buildVars, previous, mark, streamVars, choiceVars>>

\* words = title.split(' '); previous = mark['_start_']
TitleSplit ==
    /\ pc = "for_title"
    /\ i <= Len(titles)
    /\ titles[i] # None
    /\ words' = Split(titles[i])
    /\ previous' = START
    /\ pc' = "for_word"
    /\ UNCHANGED <<titles, i, mark, streamVars, choiceVars>>

\* for word in words: one non-empty word.
WordAdd ==
    /\ pc = "for_word"
    /\ Len(words) > 0
    /\ Head(words) # <<>>
    /\ mark' = AddWord(mark, previous, Head(words))
    /\ previous' = Head(words)
    /\ words' = Tail(words)
    /\ UNCHANGED <<pc, titles, i, streamVars, choiceVars>>

\* WordBreak with `continue` for `break`: the empty word is passed over.
WordSkip ==
    /\ pc = "for_word"
    /\ Len(words) > 0
    /\ Head(words) = <<>>
    /\ words' = Tail(words)
    /\ UNCHANGED <<pc, titles, i, previous, mark, streamVars, choiceVars>>

\* if word is '': break.  (The empty pieces split returns are the one empty
\* str object of the interpreter, so the identity test is true of them.)
WordBreak ==
    /\ pc = "for_word"
    /\ Len(words) > 0
    /\ Head(words) = <<>>
    /\ pc' = "end_title"
    /\ UNCHANGED <<buildVars, previous, mark, streamVars, choiceVars>>

\* for word in words: the words are used up.
WordsDone ==
    /\ pc = "for_word"
    /\ Len(words) = 0
    /\ pc' = "end_title"
    /\ UNCHANGED <<buildVars, previous, mark, streamVars, choiceVars>>

\* The '_end_' edge of the title, then the next title.
EndTitle ==
    /\ pc = "end_title"
    /\ mark' = AddEnd(mark, previous)
    /\ words' = <<>>
    /\ i' = i + 1
    /\ pc' = "for_title"
    /\ UNCHANGED <<titles, previous, streamVars, choiceVars>>

\* return mark: the input collection and the locals are gone.
Return ==
    /\ pc = "return"
    /\ titles' = <<>>
    /\ i' = 0
    /\ words' = <<>>
    /\ previous' = START
    /\ pc' = "main"
    /\ UNCHANGED <<mark, streamVars, choiceVars>>

Build ==
    \/ Enter
    \/ TitlesDone
    \/ TitleNone
    \/ TitleSplit
    \/ WordAdd
    \/ WordBreak
    \/ WordsDone
    \/ EndTitle
    \/ Return

\* ------------------------------------------------- __main__ and titles()

\* markov_randwalk: title = [], and title.append(start) unless start is
\* '_start_'.
InitialTitleEmpty(start) == <<>>

InitialTitle(start) == IF start # START THEN <<start>> ELSE <<>>

\* The test without `title in uniq`.
DiscardSeedOnly(t, sd, seen) == t = sd

\* titles(): the test that sends the loop back for another walk.
Discard(t, sd, seen) == t = sd \/ t \in seen

\* seed = sys.argv[-1] or '_start_'; titles(mark, seed) makes the generator,
\* whose body has not run yet.
ChooseSeed ==
    /\ pc = "main"
    /\ seed' \in Seeds
    /\ pc' = "suspended"
    /\ UNCHANGED <<buildVars, previous, mark, uniq, title, result, printed, choiceVars>>

\* islice asks the generator for its next title.  (uniq = set() runs at the
\* first pull: uniq is empty until then.)
Pull ==
    /\ pc = "suspended"
    /\ Len(printed) < MaxPulls
    /\ pc' = "call_walk"
    /\ UNCHANGED <<buildVars, previous, mark, streamVars, choiceVars>>

\* WalkStart with mark.get(start, {}) for mark[start]: a start that is no
\* key walks an empty table, where weighted_choice has nothing to return.
WalkStartGet ==
    /\ pc = "call_walk"
    /\ IF seed \notin DOMAIN mark
       THEN /\ pc' = "AssertionError"
            /\ UNCHANGED <<previous, title>>
       ELSE /\ previous' = seed
            /\ title' = InitialTitle(seed)
            /\ pc' = "walk"
    /\ UNCHANGED <<buildVars, mark, seed, uniq, result, printed, choiceVars>>

\* WalkStart with mark.setdefault(start, {}) for mark[start]: a start that
\* is no key is added to the chain with an empty table.
WalkStartSetdefault ==
    /\ pc = "call_walk"
    /\ mark' = IF seed \in DOMAIN mark THEN mark ELSE mark @@ (seed :> <<>>)
    /\ previous' = seed
    /\ title' = InitialTitle(seed)
    /\ pc' = "walk"
    /\ UNCHANGED <<buildVars, seed, uniq, result, printed, choiceVars>>

\* markov_randwalk up to its loop: previous = mark[start], title = [] or
\* [start].  A start that is no key raises KeyError out of the walk, out of
\* the generator and out of __main__.
WalkStart ==
    /\ pc = "call_walk"
    /\ IF seed \notin DOMAIN mark
       THEN /\ pc' = "KeyError_start"
            /\ UNCHANGED <<previous, title>>
       ELSE /\ previous' = seed
            /\ title' = InitialTitle(seed)
            /\ pc' = "walk"
    /\ UNCHANGED <<buildVars, mark, seed, uniq, result, printed, choiceVars>>

\* WalkWord without `previous = mark[newword]`.
WalkWordStay ==
    /\ pc = "walk"
    /\ Len(title) < MaxWalk
    /\ \E r2 \in Draws(mark[previous]) :
          LET newword == WeightedChoice(mark[previous], r2)
          IN  /\ newword \notin {END, AssertFail}
              /\ title' = Append(title, newword)
    /\ UNCHANGED <<pc, buildVars, previous, mark, seed, uniq, result, printed, choiceVars>>

\* One turn of the walk's loop that draws a word: title.append(newword);
\* previous = mark[newword].
WalkWord ==
    /\ pc = "walk"
    /\ Len(title) < MaxWalk
    /\ \E r2 \in Draws(mark[previous]) :
          LET newword == WeightedChoice(mark[previous], r2)
          IN  /\ newword \notin {END, AssertFail}
              /\ title' = Append(title, newword)
              /\ IF newword \in DOMAIN mark
                 THEN previous' = newword /\ pc' = "walk"
                 ELSE previous' = previous /\ pc' = "KeyError_symbol"
    /\ UNCHANGED <<buildVars, mark, seed, uniq, result, printed, choiceVars>>

\* The turn that draws '_end_': break; return ' '.join(title).
WalkEnd ==
    /\ pc = "walk"
    /\ \E r2 \in Draws(mark[previous]) :
          WeightedChoice(mark[previous], r2) = END
    /\ result' = Join(title)
    /\ pc' = "walked"
    /\ UNCHANGED <<buildVars, previous, mark, seed, uniq, title, printed, choiceVars>>

\* weighted_choice found nothing to return: assert False.
WalkAssert ==
    /\ pc = "walk"
    /\ \E r2 \in Draws(mark[previous]) :
          WeightedChoice(mark[previous], r2) = AssertFail
    /\ pc' = "AssertionError"
    /\ UNCHANGED <<buildVars, previous, mark, streamVars, choiceVars>>

\* Retry with `break` for `continue`: the generator ends at the first
\* discarded walk.
RetryBreak ==
    /\ pc = "walked"
    /\ Discard(result, seed, uniq)
    /\ pc' = "StopIteration"
    /\ UNCHANGED <<buildVars, previous, mark, streamVars, choiceVars>>

\* if title == seed or title in uniq: continue
Retry ==
    /\ pc = "walked"
    /\ Discard(result, seed, uniq)
    /\ pc' = "call_walk"
    /\ UNCHANGED <<buildVars, previous, mark, streamVars, choiceVars>>

\* uniq.add(title); yield title; print(title)
Yield ==
    /\ pc = "walked"
    /\ ~Discard(result, seed, uniq)
    /\ uniq' = uniq \cup {result}
    /\ printed' = Append(printed, result)
    /\ pc' = "suspended"
    /\ UNCHANGED <<buildVars, previous, mark, seed, title, result, choiceVars>>

Stream ==
    \/ ChooseSeed
    \/ Pull
    \/ WalkStart
    \/ WalkWord
    \/ WalkEnd
    \/ WalkAssert
    \/ Retry
    \/ Yield

Next == Build \/ Stream

Spec == Init /\ [][Next]_vars

\* calculate_chain alone, on every input.
SpecBuild == Init /\ [][Build]_vars

\* ------------------------------------------- weighted_choice on its own

\* The values a pair's item takes here.
Items == {<<"a">>, <<"a", "a">>, END}

Pairs == Items \X (1..MaxWeight)

\* Every sequence of at most MaxPairs pairs (the empty one too: the code
\* does not refuse it), with every draw in [0, total].
InitChoice ==
    /\ pc = "weighted_choice"
    /\ choices \in UNION {[1..n -> Pairs] : n \in 0..MaxPairs}
    /\ randval \in Draws(choices)
    /\ choice = <<>>
    /\ titles = <<>>
    /\ i = 0
    /\ words = <<>>
    /\ previous = START
    /\ mark = <<>>
    /\ seed = START
    /\ uniq = {}
    /\ title = <<>>
    /\ result = <<>>
    /\ printed = <<>>

\* weighted_choice(choices) with the draw randval.
Choose ==
    /\ pc = "weighted_choice"
    /\ choice' = WeightedChoice(choices, randval)
    /\ pc' = "chosen"
    /\ UNCHANGED <<buildVars, previous, mark, streamVars, choices, randval>>

SpecChoice == InitChoice /\ [][Choose]_vars

\* =============================================================== claims

\* The words an input over Chars can hold, and the symbols of a chain.
Words   == {w \in Strings(MaxLen) : Len(w) > 0 /\ \A k \in 1..Len(w) : w[k] # Space}
Symbols == Words \cup {START, END}

\* The pcs of titles() and of the walks it makes.
StreamPcs == {"suspended", "call_walk", "walk", "walked",
              "KeyError_start", "KeyError_symbol", "AssertionError"}

\* mark[s][t], 0 when the edge is absent.
Weight(m, s, t) == IF s \in DOMAIN m /\ HasKey(m[s], t) THEN Get(m[s], t) ELSE 0

\* Two chains are equal as dicts: same keys, same edges, same weights.
SameChain(m1, m2) ==
    /\ DOMAIN m1 = DOMAIN m2
    /\ \A s \in DOMAIN m1 :
          /\ Keys(m1[s]) = Keys(m2[s])
          /\ \A t \in Keys(m1[s]) : Get(m1[s], t) = Get(m2[s], t)

\* The tokens of a title: the non-empty pieces between its spaces.
Tokens(t) == SelectSeq(Split(t), LAMBDA w : w # <<>>)

\* A title as a path: '_start_', its tokens, '_end_'.
PathOf(t) == <<START>> \o Tokens(t) \o <<END>>

\* How often symbol u immediately follows symbol s in title t.
Follows(t, s, u) ==
    Cardinality({k \in 1..(Len(PathOf(t)) - 1) :
                    PathOf(t)[k] = s /\ PathOf(t)[k + 1] = u})

\* The same, summed over the titles of an input (None is no title).
RECURSIVE Observed(_, _, _)
Observed(ts, s, u) ==
    IF Len(ts) = 0 THEN 0
    ELSE (IF Head(ts) = None THEN 0 ELSE Follows(Head(ts), s, u))
         + Observed(Tail(ts), s, u)

\* The input with its None entries removed.
WithoutNone(ts) == SelectSeq(ts, LAMBDA e : e # None)

\* No two places of a sequence hold the same value.
Distinct(q) == \A a, b \in 1..Len(q) : a # b => q[a] # q[b]

\* ---------------------------------------------------------------- C1
\* C1: within one titles(mark, seed) stream no string is yielded twice, and
\* the seed string itself is never yielded, whatever the walks return.
C1_NoRepeatNoSeed ==
    /\ Distinct(printed)
    /\ \A k \in 1..Len(printed) : printed[k] # seed

\* A walk has just returned a string the stream has yielded before.
C1_Witness ==
    /\ pc = "walked"
    /\ result \in uniq
    /\ Len(printed) >= 1

\* ---------------------------------------------------------------- C2
\* C2: when calculate_chain returns, mark[s][t] is the number of times t
\* immediately follows s across all input titles ('_start_' before the first
\* token, '_end_' after the last); an edge is present exactly when that
\* number is at least 1.
C2_WeightsAreCounts ==
    pc = "return" =>
        \A s \in Symbols : \A t \in Symbols :
            /\ Weight(mark, s, t) = Observed(titles, s, t)
            /\ (s \in DOMAIN mark /\ HasKey(mark[s], t)) => Get(mark[s], t) >= 1

\* ---------------------------------------------------------------- C3
\* C3: calculate_chain skips a None entry and processes every other entry:
\* the chain built equals the chain built from the input without its None
\* entries.
C3_NoneSkipped ==
    pc = "return" => SameChain(mark, CalculateChain(WithoutNone(titles)))

\* ---------------------------------------------------------------- C4
\* C4: when calculate_chain returns, the weights of mark['_start_'] sum to
\* the number of input titles that have at least one token; empty titles add
\* nothing to the sum.
C4_StartSum ==
    pc = "return" =>
        Total(mark[START]) =
            Cardinality({k \in 1..Len(titles) :
                            titles[k] # None /\ Len(Tokens(titles[k])) > 0})

\* ---------------------------------------------------------------- C5
\* C5: after every word calculate_chain processes, and when it returns, each
\* successor other than '_end_' in any edge table is a key of the chain; so
\* the lookup mark[newword] of a walk over a built chain never fails.
C5_SuccessorsAreKeys ==
    /\ \A s \in DOMAIN mark : \A t \in Keys(mark[s]) : t # END => t \in DOMAIN mark
    /\ pc # "KeyError_symbol"

\* A walk from '_start_' has looked two drawn words up in the chain.
C5_Witness ==
    /\ pc = "walk"
    /\ seed = START
    /\ Len(title) = 2
    /\ previous = title[2]

\* ---------------------------------------------------------------- C6
\* C6 as stated: every key of the chain calculate_chain returns has a
\* non-empty edge table, for every input, the empty input and an input
\* starting with None included.
C6_Original ==
    pc = "return" => \A s \in DOMAIN mark : Len(mark[s]) > 0

\* C6 as amended: every key other than '_start_' has a non-empty edge table
\* of total weight at least 1; '_start_' has one exactly when the input is
\* not empty and does not start with None.
C6_KeysHaveEdges ==
    pc = "return" =>
        /\ \A s \in DOMAIN mark \ {START} : Len(mark[s]) > 0 /\ Total(mark[s]) >= 1
        /\ Len(mark[START]) > 0 <=> (Len(titles) > 0 /\ titles[1] # None)

\* The build of two titles that gave the chain at least two word keys.
C6_Witness ==
    /\ pc = "return"
    /\ Len(titles) = 2
    /\ titles[1] # None
    /\ Cardinality(DOMAIN mark) >= 3

\* ---------------------------------------------------------------- C7
\* The sum of the first k weights.
PrefixSum(chs, k) == Total(SubSeq(chs, 1, k))

\* C7: for a non-empty sequence of pairs with weights >= 1 and a draw r with
\* 0 <= r <= total, weighted_choice returns an item of the input, the first
\* one whose running sum reaches r, and never runs into the assertion; for
\* r = total that is the last pair at the latest.
C7_AlwaysReturns ==
    (pc = "chosen" /\ Len(choices) > 0) =>
        /\ choice # AssertFail
        /\ \E k \in 1..Len(choices) :
              /\ choice = choices[k][1]
              /\ 2 * PrefixSum(choices, k) >= randval
              /\ \A m \in 1..(k - 1) : 2 * PrefixSum(choices, m) < randval

\* The draw was total and the last of several pairs was returned.
C7_Witness ==
    /\ pc = "chosen"
    /\ Len(choices) >= 2
    /\ randval = 2 * Total(choices)
    /\ choice = choices[Len(choices)][1]
    /\ \A k \in 1..(Len(choices) - 1) : choices[k][1] # choice

\* ---------------------------------------------------------------- C8
\* A title up to its first empty token: cut before a leading space, before
\* the first of two spaces in a row, or before a trailing space.
Cut(t) ==
    LET bad == {k \in 1..Len(t) :
                   t[k] = Space /\ (k = 1 \/ k = Len(t) \/ t[k + 1] = Space)}
    IN  IF bad = {} THEN t
        ELSE SubSeq(t, 1, (CHOOSE k \in bad : \A m \in bad : k <= m) - 1)

\* The titles with pairwise distinct tokens whose one-title chain is m.  (The
\* chain of one title has total weight 1 at '_start_': other chains are not
\* compared.)
OneTitleOf(m) ==
    IF Total(m[START]) # 1 THEN {}
    ELSE {t \in Strings(MaxLen) : Distinct(Tokens(t)) /\ m = CalculateChain(<<t>>)}

\* C8 as stated: on the chain built from exactly one title with pairwise
\* distinct tokens, every walk from '_start_' returns exactly that title.
C8_Original ==
    (pc = "walked" /\ seed = START) => \A t \in OneTitleOf(mark) : result = t

\* C8 as amended: on such a chain every table the walk visits has one edge,
\* and every walk from '_start_' returns the title up to its first empty
\* token: the title itself when it has no leading, doubled or trailing space.
C8_OneTitleOnePath ==
    (pc \in {"walk", "walked"} /\ seed = START) =>
        \A t \in OneTitleOf(mark) :
            /\ pc = "walk" => Len(mark[previous]) = 1
            /\ pc = "walked" => result = Cut(t)

\* A walk over the chain of a title of two distinct tokens returned it.
C8_Witness ==
    /\ pc = "walked"
    /\ seed = START
    /\ \E t \in OneTitleOf(mark) : Len(Tokens(t)) = 2 /\ result = t

\* ---------------------------------------------------------------- C9
\* The first token of a string.
FirstToken(str) == Split(str)[1]

\* C9: with a seed that is a key of the chain and is not '_start_', every
\* string a walk returns, and so every string the stream yields, has the seed
\* as its first token; with the seed '_start_' no walk puts '_start_' in
\* front.
C9_SeedIsFirstToken ==
    /\ pc = "walked" =>
          IF seed # START
          THEN Len(title) > 0 /\ title[1] = seed /\ FirstToken(result) = seed
          ELSE (Len(title) > 0 => title[1] # START) /\ FirstToken(result) # START
    /\ \A k \in 1..Len(printed) :
          IF seed # START
          THEN FirstToken(printed[k]) = seed
          ELSE FirstToken(printed[k]) # START

\* A walk from a seed word drew a further word and returned.
C9_Witness ==
    /\ pc = "walked"
    /\ seed # START
    /\ Len(title) >= 2

\* --------------------------------------------------------------- C10
\* C10: with a seed that is no key of the chain, the first pull fails at the
\* lookup mark[start], before any sampling: nothing is yielded, no walk is
\* retried, and the program stops in the error.
C10_StartNotFound ==
    /\ []((pc \in StreamPcs /\ seed \notin DOMAIN mark) =>
            /\ pc \in {"suspended", "call_walk", "KeyError_start"}
            /\ printed = <<>>
            /\ uniq = {}
            /\ title = <<>>)
    /\ [][(pc = "call_walk" /\ seed \notin DOMAIN mark) => pc' = "KeyError_start"]_vars
    /\ [][pc # "KeyError_start"]_vars

\* The first pull with a seed that is no key has failed.
C10_Witness ==
    /\ pc = "KeyError_start"
    /\ seed \notin DOMAIN mark
    /\ printed = <<>>

\* --------------------------------------------------------------- C13
\* The symbol before place k of a walk from '_start_'.
Before(q, k) == IF k = 1 THEN START ELSE q[k - 1]

C14_NeverEmpty ==
    \A k \in 1..Len(printed) : printed[k] # <<>>

\* --------------------------------------------------------------- C16
\* C16: after construction the chain is read-only: no step of
\* weighted_choice, markov_randwalk or titles adds or removes a key or an
\* edge or changes a weight, whether the walk returns, is retried or fails.
C16_ChainReadOnly ==
    [][(pc \in StreamPcs \cup {"main"}) => (mark' = mark)]_vars

\* A walk returned the seed, was discarded, and the next walk is under way.
C16_Witness ==
    /\ pc = "walk"
    /\ seed \in DOMAIN mark
    /\ result = seed
    /\ Len(title) = 2

\* --------------------------------------------------------------- C15
\* mark is the key-wise merge of m1 and m2: the keys and the edges of both,
\* the weights of shared edges summed.
IsMerge(m, m1, m2) ==
    /\ DOMAIN m = DOMAIN m1 \cup DOMAIN m2
    /\ \A s \in DOMAIN m :
          /\ Keys(m[s]) = (IF s \in DOMAIN m1 THEN Keys(m1[s]) ELSE {})
                          \cup (IF s \in DOMAIN m2 THEN Keys(m2[s]) ELSE {})
          /\ \A t \in Keys(m[s]) : Get(m[s], t) = Weight(m1, s, t) + Weight(m2, s, t)

\* The orders of n entries.
Orders(n) == {f \in [1..n -> 1..n] : \A a, b \in 1..n : a # b => f[a] # f[b]}

\* C15: for an input without None, the chain of A followed by B is the
\* key-wise merge of the chains of A and of B, weights of shared edges
\* summed; so the chain does not depend on the order of the titles.
C15_Sharding ==
    (pc = "return" /\ \A k \in 1..Len(titles) : titles[k] # None) =>
        /\ \A k \in 0..Len(titles) :
              LET chainA == CalculateChain(SubSeq(titles, 1, k))
                  chainB == CalculateChain(SubSeq(titles, k + 1, Len(titles)))
              IN  IsMerge(mark, chainA, chainB)
        /\ \A f \in Orders(Len(titles)) :
              SameChain(mark, CalculateChain([k \in 1..Len(titles) |-> titles[f[k]]]))

\* Two different titles that share an edge were built into one chain.
C15_Witness ==
    /\ pc = "return"
    /\ Len(titles) = 2
    /\ titles[1] # None /\ titles[2] # None
    /\ Tokens(titles[1]) # Tokens(titles[2])
    /\ Len(Tokens(titles[1])) >= 1 /\ Len(Tokens(titles[2])) >= 1
    /\ \E s \in DOMAIN mark : \E t \in Keys(mark[s]) : Get(mark[s], t) = 2

\* --------------------------------------------------------------- C17
\* The titles cut at their first empty token.
CutAll(ts) == [k \in 1..Len(ts) |-> Cut(ts[k])]

\* The transitions of a path, in order: the pairs of neighbours.
Steps(p) == [k \in 1..(Len(p) - 1) |-> <<p[k], p[k + 1]>>]

\* The transitions of the titles of ts, one after the other.
RECURSIVE Transitions(_)
Transitions(ts) ==
    IF Len(ts) = 0 THEN <<>>
    ELSE Steps(PathOf(Head(ts))) \o Transitions(Tail(ts))

\* C17: calculate_chain stops reading a title at the first empty token of
\* its split: after each title read so far, the chain holds the transitions
\* of the tokens before that token, with '_end_' after the last of them
\* ('_start_'->'_end_' when the first token is empty), and nothing of the
\* tokens after it.
C17_StopsAtEmptyToken ==
    pc \in {"for_title", "return"} =>
        LET tr == Transitions(CutAll(SubSeq(titles, 1, i - 1)))
        IN  /\ \A k \in 1..Len(tr) :
                  Weight(mark, tr[k][1], tr[k][2])
                      = Cardinality({j \in 1..Len(tr) : tr[j] = tr[k]})
            /\ \A s \in DOMAIN mark : \A t \in Keys(mark[s]) :
                  \E k \in 1..Len(tr) : tr[k] = <<s, t>>

\* A title with a token after a doubled space has been read.
C17_Witness ==
    /\ pc = "for_title"
    /\ i = 2
    /\ Len(Tokens(Cut(titles[1]))) = 1
    /\ Len(Tokens(titles[1])) = 2

\* ------------------------------------------------------- C11 and C12
\* The words a walk at symbol s can draw.
Succ(m, s) == IF s \in DOMAIN m THEN Keys(m[s]) \ {END} ELSE {}

\* The symbols a walk can visit from the symbols of S on.
RECURSIVE Closure(_, _)
Closure(m, S) ==
    LET T == S \cup UNION {Succ(m, s) : s \in S}
    IN  IF T = S THEN S ELSE Closure(m, T)

Visits(m, s) == Closure(m, {s})

\* '_end_' can be drawn at s or at a symbol visited after s.
CanEnd(m, s) == \E u \in Visits(m, s) : u \in DOMAIN m /\ HasKey(m[u], END)

\* A walk from s can come back to a symbol it has visited.
Cyclic(m, s) == \E u \in Visits(m, s) : u \in Closure(m, Succ(m, u))

\* The token lists of the walks from table prev that draw at most n words and
\* then '_end_'.
RECURSIVE Returns(_, _, _)
Returns(m, prev, n) ==
    (IF HasKey(m[prev], END) THEN {<<>>} ELSE {})
    \cup (IF n = 0 THEN {}
          ELSE UNION {{<<w>> \o q : q \in Returns(m, w, n - 1)} : w \in Succ(m, prev)})

\* Every string a walk from sd can return is sd or in uq: the walks from sd
\* are finitely many (no cycle) and each of them is discarded.
Exhausted(m, sd, uq) ==
    /\ ~Cyclic(m, sd)
    /\ \A q \in Returns(m, sd, Cardinality(DOMAIN m)) :
          LET str == Join(InitialTitle(sd) \o q) IN str = sd \/ str \in uq

\* A pull is under way.
Pending == pc \in {"call_walk", "walk", "walked"}

C12_EndReachable ==
    (pc = "return" /\ \E k \in 1..Len(titles) : titles[k] # None) =>
        \A s \in DOMAIN mark : \A u \in Visits(mark, s) :
            /\ u \in DOMAIN mark
            /\ Len(mark[u]) > 0
            /\ CanEnd(mark, u)

====
